---- MODULE Spec2Model ----
(***************************************************************************)
(* Model of the batch black-bar removal tools of VideoFusion:              *)
(*   src/src/common/black_remove.py        (images and videos, "media")    *)
(*   src/src/common/video_black_remove.py  (videos only, "video")          *)
(* The state is the file system (files and directories), the parsed        *)
(* command line and input document, the position of main(), the lazy       *)
(* directory walk of the batch function and a record of what the last      *)
(* loop iteration did. Detectors, cv2, shutil and ffmpeg are external:     *)
(* their answers are inputs drawn from small sets at each step.            *)
(***************************************************************************)
EXTENDS Integers, Sequences, FiniteSets, TLC

\* ------------------------------------------------------------------ bounds
\* Largest pixel coordinate a detector may return.
MaxCoord == 2
\* Number of runs of the program on the same directories.
MaxRuns == 2
\* Longest path (directory components + name tokens) the walk still visits.
MaxPathLen == 4

\* ------------------------------------------------------- program constants
DefaultMaxFrames == 500

VideoExtensions == {".mp4", ".avi", ".flv", ".mov", ".mkv"}
ImageExtensions == {".png", ".jpg", ".jpeg", ".bmp", ".gif", ".tiff"}

DefaultOutputPath == <<"output_noblack">>
DefaultVideoAlgorithm == "dynamic"
DefaultCropEnabled == TRUE

\* ------------------------------------------------------------------ values
\* None for a path / a rectangle that was never produced.
NoPath == <<>>
NoRect == <<>>
NoFile == [dir |-> <<>>, name |-> <<>>]

\* Native frame size (width, height) of every medium of the tree, and the
\* rectangle that covers it: (x, y, w, h) and (x1, y1, x2, y2) alike.
Native == <<MaxCoord, MaxCoord - 1>>
FullFrame == <<0, 0, Native[1], Native[2]>>

\* Rectangles a detector may return: video (x, y, w, h), image (x1, y1, x2, y2).
\* The full frame, every rectangle that differs from it in one coordinate,
\* and two that differ in all.
Rects ==
  {r \in {<<a, b, c, d>> : a \in {0, 1}, b \in {0, 1}, c \in 0..MaxCoord, d \in 0..MaxCoord} :
     Cardinality({i \in 1..4 : r[i] # FullFrame[i]}) <= 1}
  \cup {<<0, 0, 0, 0>>, <<1, 1, 1, 1>>}

\* ------------------------------------------------------------- path algebra
\* A file is [dir, name]; dir is the sequence of directory components and
\* name the sequence of tokens whose concatenation is the file name, the
\* last token being pathlib's suffix ("" when the name has none).
Stem(name) == SubSeq(name, 1, Len(name) - 1)
Suffix(name) == name[Len(name)]

\* str.lower() on the suffixes of the model.
Lower(s) ==
  CASE s = ".MP4" -> ".mp4"
    [] s = ".PNG" -> ".png"
    [] s = ".TXT" -> ".txt"
    [] OTHER -> s

IsPrefix(r, d) == Len(r) <= Len(d) /\ SubSeq(d, 1, Len(r)) = r

\* input_path.relative_to(input_dir).parent
RelativeDir(d, root) == SubSeq(d, Len(root) + 1, Len(d))

\* mkdir(parents=True): the directory and all its ancestors.
Prefixes(d) == {SubSeq(d, 1, n) : n \in 1..Len(d)}

PathLen(f) == Len(f.dir) + Len(f.name)

\* ------------------------------------------------------------------- state
VARIABLES
  cfg,        \* the script run, argv and the input document, fixed over the runs
  fs,         \* the regular files that exist
  dirs,       \* the directories that exist
  pc,         \* position of main(): start, setup, loop, finally, exit, exited
  run,        \* number of the current run of the program
  result,     \* main's result dictionary
  outBound,   \* whether main's local output_file has been assigned
  listed,     \* directories the walk has scanned in this run
  pending,    \* files the walk has found and not yet handed to the loop body
  done,       \* per file of this run: outcome, and whether an external fault hit it
  last,       \* what the latest loop iteration did
  docWrites,  \* attempts to open the result document for writing, this run
  docWritten, \* whether the result document was written, this run
  exitCode,   \* the process's exit status, -1 while it runs
  fsStart,    \* the files that existed when this run started
  dirsStart,  \* the directories that existed when the walk of this run started
  completed   \* the runs in which the batch function has returned

vars == <<cfg, fs, dirs, pc, run, result, outBound, listed, pending, done,
          last, docWrites, docWritten, exitCode, fsStart, dirsStart, completed>>

\* --------------------------------------------------- command line and input
\* The script that is run: "media" is black_remove.py, "video" is
\* video_black_remove.py.
Entry == cfg.entry

\* input_data['params'].get('video_path', {}).get('video_path')
MediaPath == cfg.doc.media_path

\* input_data['config'].get('output_path', 'output_noblack')
OutputPath ==
  IF cfg.doc.output_path = NoPath THEN DefaultOutputPath ELSE cfg.doc.output_path

\* input_data['config'].get('crop_enabled', True)
CropEnabled ==
  IF cfg.doc.crop_enabled = "absent" THEN DefaultCropEnabled
  ELSE cfg.doc.crop_enabled = "true"

\* input_data['config'].get('video_algorithm', 'dynamic')
VideoAlgorithm ==
  IF cfg.doc.video_algorithm = "absent" THEN DefaultVideoAlgorithm
  ELSE cfg.doc.video_algorithm

\* input_data['config'].get('max_frames', 500)
MaxFrames == DefaultMaxFrames

\* The exception that main raises before it calls the batch function (lines
\* 178-197 of black_remove.py, 96-113 of video_black_remove.py), "None" when
\* it raises none. Only video_black_remove.py looks at the input root here:
\* a missing key makes .get() fail on None or raises the KeyError of line 113.
ParseError ==
  IF cfg.argc # 3 THEN "ValueError"
  ELSE IF ~cfg.cfgExists THEN "FileNotFoundError"
  ELSE IF ~cfg.doc.parses THEN "JSONDecodeError"
  ELSE IF ~cfg.doc.hasParams THEN "KeyError"
  ELSE IF Entry = "video" /\ MediaPath = NoPath THEN "AttributeError"
  ELSE IF ~cfg.doc.hasConfig THEN "KeyError"
  ELSE "None"

\* ------------------------------------------------------------ pure functions
\* Variant of Classify that compares the suffix as it is written.
ClassifyCaseSensitive(suffix) ==
  IF suffix \in VideoExtensions THEN "video"
  ELSE IF suffix \in ImageExtensions THEN "image"
  ELSE "unsupported"

\* Lines 109-116: the media type of a suffix.
Classify(suffix) ==
  IF Lower(suffix) \in VideoExtensions THEN "video"
  ELSE IF Lower(suffix) \in ImageExtensions THEN "image"
  ELSE "unsupported"

\* Variant of GetRemover that checks the algorithm before the media type.
GetRemoverAlgorithmFirst(media_type, algorithm) ==
  IF algorithm \notin {"dynamic", "static"} THEN "ValueError"
  ELSE IF media_type = "video"
  THEN IF algorithm = "dynamic" THEN "VideoRemover" ELSE "IMGBlackRemover"
  ELSE IF media_type = "image" THEN "BlackRemover"
  ELSE "ValueError"

\* get_remover: the detector class, or the ValueError it raises.
GetRemover(media_type, algorithm) ==
  IF media_type = "video"
  THEN IF algorithm = "dynamic" THEN "VideoRemover"
       ELSE IF algorithm = "static" THEN "IMGBlackRemover"
       ELSE "ValueError"
  ELSE IF media_type = "image" THEN "BlackRemover"
  ELSE "ValueError"

\* Variant of HasBlackVideo that compares the width alone.
HasBlackVideoWidthOnly(rect, dims) == ~(rect[3] = dims[1])

\* Line 141: has_black of a video rectangle (x, y, w, h).
HasBlackVideo(rect, dims) == ~(rect[3] = dims[1] /\ rect[4] = dims[2])

\* Line 148: has_black of an image rectangle (x1, y1, x2, y2).
HasBlackImage(rect, dims) ==
  ~(rect[1] = 0 /\ rect[2] = 0 /\ rect[3] = dims[1] /\ rect[4] = dims[2])

\* crop_video lines 28-30: the rectangle passes the guard.
CropVideoValid(rect) == ~(rect[3] <= 0 \/ rect[4] <= 0)

\* crop_image lines 55-59: the rectangle passes the guard.
CropImageValid(rect) == ~(rect[3] - rect[1] <= 0 \/ rect[4] - rect[2] <= 0)

\* Variant of Target that takes the lower-cased suffix of line 109.
TargetLowerSuffix(f) ==
  [dir |-> OutputPath \o RelativeDir(f.dir, MediaPath),
   name |-> Stem(f.name) \o <<"_noblack">> \o <<Lower(Suffix(f.name))>>]

\* Line 120: output_dir / rel_path.parent / f"{stem}_noblack{suffix}"
Target(f) ==
  [dir |-> OutputPath \o RelativeDir(f.dir, MediaPath),
   name |-> Stem(f.name) \o <<"_noblack">> \o <<Suffix(f.name)>>]

\* Variant of ExitStatus that ignores the result.
ExitStatusAlwaysZero(success) == 0

\* Line 223: sys.exit(0 if result["success"] else 1)
ExitStatus(success) == IF success THEN 0 ELSE 1

\* ------------------------------------------------- one iteration's record
\* What an iteration of the loop of the batch function did: the file, its
\* target and whether the target existed at line 123, the detector it
\* selected, the calls it made in their order (ops), what the detector and
\* the probe of the native size returned, the rectangle handed to the crop
\* executor, whether the target file and its directory were created, the
\* external fault that hit it, whether the transcoder failed, the size in
\* bytes that stat() gave and whether an exception left the loop.
Blank ==
  [path |-> NoFile, target |-> NoFile, existed |-> FALSE,
   kind |-> "none", remover |-> "none", outcome |-> "none", ops |-> <<>>,
   maxFrames |-> FALSE, det |-> NoRect, dims |-> <<0, 0>>, hasBlack |-> FALSE,
   cropRect |-> NoRect, wrote |-> FALSE, mkdir |-> FALSE, fault |-> "none",
   toolFailed |-> FALSE, size |-> 0, raised |-> FALSE]

\* How often an iteration made a call, and whether it made it at all.
Calls(r, op) == Cardinality({i \in DOMAIN r.ops : r.ops[i] = op})
Called(r, op) == \E i \in DOMAIN r.ops : r.ops[i] = op

\* Answers of the world to one iteration: the detector's rectangle or NoRect
\* when it raises, whether the medium can be opened for the probe of its
\* native size, and how the copy or the crop executor fares.
DetectResults == Rects \cup {NoRect}
ProbeResults == {"ok", "fail"}
IoResults ==
  {"ok", "raise", "raise_partial", "tool_fail", "tool_fail_partial", "silent"}

\* Lines 152-154: mkdir of the target's directory, then shutil.copy2.
CopyFile(b, io) ==
  LET c == [b EXCEPT !.ops = Append(@, "copy")]
  IN  IF io = "raise"
      THEN [c EXCEPT !.outcome = "Failed", !.fault = "io"]
      ELSE IF io = "raise_partial"
      THEN [c EXCEPT !.outcome = "Failed", !.fault = "io", !.mkdir = TRUE,
                     !.wrote = TRUE]
      ELSE [c EXCEPT !.outcome = "Copied", !.mkdir = TRUE, !.wrote = TRUE]

\* crop_video: the guard on the rectangle, then ffmpeg -y; a failing ffmpeg
\* (CalledProcessError) or a missing one (FileNotFoundError) is printed and
\* swallowed, and a failing one may leave a partial target. ffmpeg creates no
\* directory: it fails when the target's directory does not exist.
CropVideo(b, rect, io, targetDirExists) ==
  LET c == [b EXCEPT !.ops = Append(@, "crop_video"), !.cropRect = rect]
  IN  IF ~CropVideoValid(rect)
      THEN [c EXCEPT !.outcome = "Failed"]
      ELSE LET r == [c EXCEPT !.ops = Append(@, "ffmpeg"), !.outcome = "Cropped"]
           IN  IF ~targetDirExists
               THEN [r EXCEPT !.toolFailed = TRUE]
               ELSE IF io = "tool_fail"
               THEN [r EXCEPT !.fault = "tool", !.toolFailed = TRUE]
               ELSE IF io = "tool_fail_partial"
               THEN [r EXCEPT !.fault = "tool", !.toolFailed = TRUE,
                              !.wrote = TRUE]
               ELSE [r EXCEPT !.wrote = TRUE]

\* crop_image: the guard on the rectangle, cv2.imread (None raises),
\* os.makedirs, cv2.imwrite (which returns False without raising).
CropImage(b, rect, io) ==
  LET c == [b EXCEPT !.ops = Append(@, "crop_image"), !.cropRect = rect]
  IN  IF ~CropImageValid(rect)
      THEN [c EXCEPT !.outcome = "Failed"]
      ELSE IF io = "raise"
      THEN [c EXCEPT !.outcome = "Failed", !.fault = "io"]
      ELSE IF io = "raise_partial"
      THEN [c EXCEPT !.outcome = "Failed", !.fault = "io", !.mkdir = TRUE]
      ELSE IF io = "silent"
      THEN [c EXCEPT !.outcome = "Cropped", !.fault = "io", !.mkdir = TRUE]
      ELSE [c EXCEPT !.outcome = "Cropped", !.mkdir = TRUE, !.wrote = TRUE]

\* Lines 150-159: copy when cropping is off or there are no bars, else crop.
Decide(b, io, targetDirExists) ==
  IF ~CropEnabled \/ ~b.hasBlack
  THEN CopyFile(b, io)
  ELSE IF b.kind = "video"
  THEN CropVideo(b, b.det, io, targetDirExists)
  ELSE CropImage(b, b.det, io)

\* Lines 138-148: the native size is probed and has_black computed. An
\* unreadable video gives size 0 x 0 (VideoCapture.get returns 0.0); an
\* unreadable image gives None, and img.shape raises.
Evaluate(b, probe, io, targetDirExists) ==
  LET p == [b EXCEPT !.ops = Append(@, "probe")]
  IN  IF b.kind = "video"
      THEN LET dims == IF probe = "ok" THEN Native ELSE <<0, 0>>
           IN  Decide([p EXCEPT !.dims = dims,
                                !.hasBlack = HasBlackVideo(b.det, dims),
                                !.fault = IF probe = "ok" THEN "none" ELSE "probe"],
                      io, targetDirExists)
      ELSE IF probe = "fail"
      THEN [p EXCEPT !.outcome = "Failed", !.fault = "probe"]
      ELSE Decide([p EXCEPT !.dims = Native,
                            !.hasBlack = HasBlackImage(b.det, Native)],
                  io, targetDirExists)

\* Lines 127-163: the try block of one file and its except clause. Every
\* exception raised inside ends the iteration with outcome Failed.
TryBody(kind, det, probe, io, targetDirExists) ==
  LET remover == GetRemover(kind, VideoAlgorithm)
      b == [Blank EXCEPT !.kind = kind, !.remover = remover, !.ops = <<"select">>]
  IN  IF remover = "ValueError"
      THEN [b EXCEPT !.outcome = "Failed"]
      ELSE LET d == [b EXCEPT !.ops = Append(@, "detect"), !.det = det,
                              !.maxFrames = (kind = "video" /\ VideoAlgorithm = "static")]
           IN  IF det = NoRect
               THEN [d EXCEPT !.outcome = "Failed", !.fault = "detect"]
               ELSE Evaluate(d, probe, io, targetDirExists)

\* ------------------------------------------- the loop body, videos only
\* Sizes in bytes that stat() may give for a video.
FileSizes == 1..(MaxCoord + 1)

\* video_black_remove.py line 74: the test for "no bars" compares the
\* rectangle's width and height with the file's size in bytes.
NoBarsBySize(rect, size) == rect[3] = size /\ rect[4] = size

\* video_black_remove.py crop_video (lines 23-44), called after the mkdir of
\* line 79: no guard on the rectangle; a failing or missing ffmpeg is printed
\* and swallowed.
CropVideoOnly(b, rect, io) ==
  LET r == [b EXCEPT !.ops = @ \o <<"crop_video", "ffmpeg">>, !.cropRect = rect,
                     !.mkdir = TRUE, !.outcome = "Cropped"]
  IN  IF io = "tool_fail"
      THEN [r EXCEPT !.fault = "tool", !.toolFailed = TRUE]
      ELSE IF io = "tool_fail_partial"
      THEN [r EXCEPT !.fault = "tool", !.toolFailed = TRUE, !.wrote = TRUE]
      ELSE [r EXCEPT !.wrote = TRUE]

\* video_black_remove.py lines 66-80: one video without target. There is no
\* try block: an exception of the detector or of the copy leaves the loop.
VideoOnlyBody(det, size, io) ==
  LET b == [Blank EXCEPT !.kind = "video", !.remover = "VideoRemover",
                         !.ops = <<"detect">>, !.det = det]
  IN  IF det = NoRect
      THEN [b EXCEPT !.outcome = "Failed", !.fault = "detect", !.raised = TRUE]
      ELSE IF det[3] <= 0 \/ det[4] <= 0
      THEN [b EXCEPT !.outcome = "SkippedCorrupt"]
      ELSE LET c == [b EXCEPT !.size = size, !.hasBlack = ~NoBarsBySize(det, size)]
           IN  IF NoBarsBySize(det, size)
               THEN LET k == CopyFile(c, io)
                    IN  [k EXCEPT !.raised = (k.outcome = "Failed")]
               ELSE CropVideoOnly(c, det, io)

\* ------------------------------------------------------------ initial state
File(d, n) == [dir |-> d, name |-> n]

\* The input trees: media at the root and in a subdirectory, an upper-case
\* suffix, a file that is no medium, and the empty tree.
Trees ==
  { {},
    {File(<<"in">>, <<"v", ".mp4">>), File(<<"in", "a">>, <<"p", ".png">>)},
    {File(<<"in", "a">>, <<"w", ".MP4">>), File(<<"in">>, <<"q", ".png">>),
     File(<<"in">>, <<"n", ".txt">>)} }

\* The input document as json.load returns it: whether it parses, whether
\* the keys 'params' and 'config' are there, and the values of the keys read
\* (NoPath or "absent" for a key that is missing). The directory "gone" does
\* not exist.
DefaultDoc ==
  [parses |-> TRUE, hasParams |-> TRUE, hasConfig |-> TRUE, media_path |-> <<"in">>,
   output_path |-> NoPath, crop_enabled |-> "absent", video_algorithm |-> "absent"]

\* An output root that is the input root or lies inside it comes with the
\* defaults of the other keys.
Docs ==
  {d \in [parses : {TRUE}, hasParams : {TRUE}, hasConfig : {TRUE},
          media_path : {NoPath, <<"in">>, <<"gone">>},
          output_path : {NoPath, <<"in">>, <<"in", "out">>},
          crop_enabled : {"absent", "false"},
          video_algorithm : {"absent", "static", "bogus"}] :
     d.output_path # NoPath =>
       d.crop_enabled = "absent" /\ d.video_algorithm = "absent"}
  \cup {[DefaultDoc EXCEPT !.parses = FALSE],
        [DefaultDoc EXCEPT !.hasParams = FALSE, !.media_path = NoPath],
        [DefaultDoc EXCEPT !.hasConfig = FALSE]}

\* video_black_remove.py reads neither crop_enabled nor video_algorithm.
Configs ==
  {c \in [entry : {"media", "video"}, argc : {2, 3, 4}, cfgExists : BOOLEAN,
          doc : Docs] :
     /\ (c.argc # 3 \/ ~c.cfgExists) => c.doc = DefaultDoc
     /\ c.entry = "video"
        => c.doc.crop_enabled = "absent" /\ c.doc.video_algorithm = "absent"}

NoResult == [success |-> FALSE, video_path |-> NoPath, error |-> "None"]

Init ==
  /\ cfg \in Configs
  /\ fs \in Trees
  /\ dirs = {<<"in">>} \cup UNION {Prefixes(f.dir) : f \in fs}
  /\ pc = "start"
  /\ run = 1
  /\ result = NoResult
  /\ outBound = FALSE
  /\ listed = {}
  /\ pending = {}
  /\ done = {}
  /\ last = Blank
  /\ docWrites = 0
  /\ docWritten = FALSE
  /\ exitCode = -1
  /\ fsStart = fs
  /\ dirsStart = {}
  /\ completed = {}

\* --------------------------------------------------------------- main, setup
\* main lines 177-197: the argument count, the input document and its keys.
\* An exception goes to the except clause of line 211.
ParseArgsAndConfig ==
  /\ pc = "start"
  /\ outBound' = (cfg.argc = 3)
  /\ IF ParseError = "None"
     THEN /\ pc' = "setup"
          /\ UNCHANGED result
     ELSE /\ pc' = "finally"
          /\ result' = [result EXCEPT !.error = ParseError]
  /\ UNCHANGED <<cfg, fs, dirs, run, listed, pending, done, last,
                 docWrites, docWritten, exitCode, fsStart, dirsStart, completed>>

\* batch_process_media lines 96-98: Path(None) raises TypeError; the output
\* root is created with its parents (mkdirOk: whether the system allows it).
BatchSetup ==
  /\ pc = "setup"
  /\ \E mkdirOk \in BOOLEAN :
       IF MediaPath = NoPath
       THEN /\ pc' = "finally"
            /\ result' = [result EXCEPT !.error = "TypeError"]
            /\ UNCHANGED <<dirs, dirsStart>>
       ELSE IF ~mkdirOk /\ OutputPath \notin dirs
       THEN /\ pc' = "finally"
            /\ result' = [result EXCEPT !.error = "OSError"]
            /\ UNCHANGED <<dirs, dirsStart>>
       ELSE /\ pc' = "loop"
            /\ dirs' = dirs \cup Prefixes(OutputPath)
            /\ dirsStart' = dirs \cup Prefixes(OutputPath)
            /\ UNCHANGED result
  /\ UNCHANGED <<cfg, fs, run, outBound, listed, pending, done, last,
                 docWrites, docWritten, exitCode, fsStart, completed>>

\* ------------------------------------------------------------------ the walk
\* input_dir.rglob('*') is lazy: a directory is scanned when the walk
\* reaches it, after the files of the directory scanned before it have gone
\* through the loop body, and a directory is reached through its parent.
Parent(d) == SubSeq(d, 1, Len(d) - 1)

Listable(d) ==
  /\ d \in dirs
  /\ d \notin listed
  /\ IsPrefix(MediaPath, d)
  /\ Len(d) < MaxPathLen
  /\ d = MediaPath \/ Parent(d) \in listed

\* The entry of a directory in its parent: a name without suffix.
DirEntry(d) == [dir |-> Parent(d), name |-> <<d[Len(d)], "">>]

\* Path.is_file()
IsFile(f) == f \in fs

\* Line 104, one scandir of the walk: the regular files of the directory and
\* its subdirectories, all of them yielded to the loop.
ListDir ==
  /\ pc = "loop"
  /\ pending = {}
  /\ \E d \in dirs :
       /\ Listable(d)
       /\ listed' = listed \cup {d}
       /\ pending' = {f \in fs : f.dir = d /\ PathLen(f) <= MaxPathLen}
                      \cup {DirEntry(e) : e \in {x \in dirs : Len(x) > 1 /\ Parent(x) = d}}
  /\ UNCHANGED <<cfg, fs, dirs, pc, run, result, outBound, done, last,
                 docWrites, docWritten, exitCode, fsStart, dirsStart, completed>>

\* Variant of TargetExists that looks for the source's own name under the
\* output root.
TargetExistsUnsuffixed(f) == [dir |-> Target(f).dir, name |-> f.name] \in fs

\* Variant of TargetExists that looks for the target's name next to the
\* source.
TargetExistsBesideSource(f) == [dir |-> f.dir, name |-> Target(f).name] \in fs

\* Line 123: output_file.exists()
TargetExists(f) == Target(f) \in fs

\* The files the script works on: videos and images (lines 109-116), or
\* videos alone (video_black_remove.py line 56).
IsMedium(f) ==
  IF Entry = "media"
  THEN Classify(Suffix(f.name)) # "unsupported"
  ELSE Classify(Suffix(f.name)) = "video"

\* Lines 105-106 (video_black_remove.py line 56): what is no regular file
\* is passed over before its suffix is looked at.
SkipNonFile ==
  /\ pc = "loop"
  /\ \E f \in pending :
       /\ ~IsFile(f)
       /\ pending' = pending \ {f}
       /\ last' = [Blank EXCEPT !.path = f, !.outcome = "SkippedUnsupported"]
  /\ UNCHANGED <<cfg, fs, dirs, pc, run, result, outBound, listed, done,
                 docWrites, docWritten, exitCode, fsStart, dirsStart, completed>>

\* Lines 109-116: a file that is no medium of the script is passed over.
SkipUnsupported ==
  /\ pc = "loop"
  /\ \E f \in pending :
       /\ IsFile(f)
       /\ ~IsMedium(f)
       /\ pending' = pending \ {f}
       /\ last' = [Blank EXCEPT !.path = f, !.kind = Classify(Suffix(f.name)),
                                !.outcome = "SkippedUnsupported"]
       /\ done' = done \cup
            {[path |-> f, outcome |-> "SkippedUnsupported", fault |-> FALSE]}
  /\ UNCHANGED <<cfg, fs, dirs, pc, run, result, outBound, listed,
                 docWrites, docWritten, exitCode, fsStart, dirsStart, completed>>

\* Lines 118-125: a medium whose target exists is skipped.
SkipExisting ==
  /\ pc = "loop"
  /\ \E f \in pending :
       /\ IsFile(f)
       /\ IsMedium(f)
       /\ TargetExists(f)
       /\ pending' = pending \ {f}
       /\ last' = [Blank EXCEPT !.path = f, !.target = Target(f), !.existed = TRUE,
                                !.kind = Classify(Suffix(f.name)),
                                !.outcome = "SkippedExisting"]
       /\ done' = done \cup
            {[path |-> f, outcome |-> "SkippedExisting", fault |-> FALSE]}
  /\ UNCHANGED <<cfg, fs, dirs, pc, run, result, outBound, listed,
                 docWrites, docWritten, exitCode, fsStart, dirsStart, completed>>

\* Lines 127-163: a medium without target goes through the try block. An
\* answer of the world that the iteration never asks for is left at its
\* first value.
ProcessMedia ==
  /\ pc = "loop"
  /\ Entry = "media"
  /\ \E f \in pending :
       /\ IsFile(f)
       /\ IsMedium(f)
       /\ ~TargetExists(f)
       /\ \E det \in DetectResults :
            /\ GetRemover(Classify(Suffix(f.name)), VideoAlgorithm) = "ValueError"
               => det = NoRect
            /\ \E probe \in ProbeResults :
                 /\ det = NoRect => probe = "ok"
                 /\ \E io \in IoResults :
                      /\ det = NoRect => io = "ok"
                      /\ LET r == TryBody(Classify(Suffix(f.name)), det, probe, io,
                                          Target(f).dir \in dirs)
                         IN  /\ r.fault \in {"io", "tool"} \/ io = "ok"
                             /\ pending' = pending \ {f}
                             /\ last' = [r EXCEPT !.path = f, !.target = Target(f)]
                             /\ done' = done \cup
                                  {[path |-> f, outcome |-> r.outcome,
                                    fault |-> r.fault # "none"]}
                             /\ fs' = IF r.wrote THEN fs \cup {Target(f)} ELSE fs
                             /\ dirs' = IF r.mkdir
                                        THEN dirs \cup Prefixes(Target(f).dir)
                                        ELSE dirs
  /\ UNCHANGED <<cfg, pc, run, result, outBound, listed,
                 docWrites, docWritten, exitCode, fsStart, dirsStart, completed>>

\* video_black_remove.py lines 66-80 and main lines 121-123: a video without
\* target; an exception ends the batch and is recorded by main.
ProcessVideoOnly ==
  /\ pc = "loop"
  /\ Entry = "video"
  /\ \E f \in pending :
       /\ IsFile(f)
       /\ IsMedium(f)
       /\ ~TargetExists(f)
       /\ \E det \in DetectResults, size \in FileSizes, io \in IoResults :
            LET r == VideoOnlyBody(det, size, io)
            IN  /\ r.size = size \/ size = 1
                /\ r.fault \in {"io", "tool"} \/ io = "ok"
                /\ pending' = pending \ {f}
                /\ last' = [r EXCEPT !.path = f, !.target = Target(f)]
                /\ done' = done \cup
                     {[path |-> f, outcome |-> r.outcome, fault |-> r.fault # "none"]}
                /\ fs' = IF r.wrote THEN fs \cup {Target(f)} ELSE fs
                /\ dirs' = IF r.mkdir THEN dirs \cup Prefixes(Target(f).dir) ELSE dirs
                /\ IF r.raised
                   THEN /\ pc' = "finally"
                        /\ result' = [result EXCEPT !.error = "Exception"]
                   ELSE UNCHANGED <<pc, result>>
  /\ UNCHANGED <<cfg, run, outBound, listed,
                 docWrites, docWritten, exitCode, fsStart, dirsStart, completed>>

\* Variant of BatchResult in which a failed file makes the run fail.
BatchResultFailsOnFileFailure ==
  [success |-> \A d \in done : d.outcome # "Failed",
   video_path |-> OutputPath, error |-> "None"]

\* main lines 200-208: the result after batch_process_media has returned.
BatchResult == [success |-> TRUE, video_path |-> OutputPath, error |-> "None"]

\* Line 165 and main lines 200-209: the walk is exhausted (a directory made
\* during the run may have been missed), the loop is left, the output root
\* is returned and main records success.
BatchReturn ==
  /\ pc = "loop"
  /\ pending = {}
  /\ \A d \in dirs : Listable(d) => d \notin dirsStart
  /\ result' = BatchResult
  /\ completed' = completed \cup {run}
  /\ pc' = "finally"
  /\ listed' = {}
  /\ last' = Blank
  /\ UNCHANGED <<cfg, fs, dirs, run, outBound, pending, done,
                 docWrites, docWritten, exitCode, fsStart, dirsStart>>

\* ------------------------------------------------------------- main, the end
\* Lines 215-221: the result document is written. With output_file unbound
\* the open() raises NameError before any file is opened; a failing write
\* exits with status 1.
WriteResult ==
  /\ pc = "finally"
  /\ \E writeOk \in BOOLEAN :
       IF ~outBound
       THEN /\ pc' = "exited"
            /\ exitCode' = 1
            /\ UNCHANGED <<docWrites, docWritten>>
       ELSE IF ~writeOk
       THEN /\ pc' = "exited"
            /\ exitCode' = 1
            /\ docWrites' = docWrites + 1
            /\ UNCHANGED docWritten
       ELSE /\ pc' = "exit"
            /\ docWrites' = docWrites + 1
            /\ docWritten' = TRUE
            /\ UNCHANGED exitCode
  /\ UNCHANGED <<cfg, fs, dirs, run, result, outBound, listed, pending, done,
                 last, fsStart, dirsStart, completed>>

\* Line 223.
Exit ==
  /\ pc = "exit"
  /\ exitCode' = ExitStatus(result.success)
  /\ pc' = "exited"
  /\ UNCHANGED <<cfg, fs, dirs, run, result, outBound, listed, pending, done,
                 last, docWrites, docWritten, fsStart, dirsStart, completed>>

\* The program is started again with the same arguments, input document and
\* directories.
Rerun ==
  /\ pc = "exited"
  /\ run < MaxRuns
  /\ run' = run + 1
  /\ pc' = "start"
  /\ result' = NoResult
  /\ outBound' = FALSE
  /\ listed' = {}
  /\ pending' = {}
  /\ done' = {}
  /\ last' = Blank
  /\ docWrites' = 0
  /\ docWritten' = FALSE
  /\ exitCode' = -1
  /\ fsStart' = fs
  /\ dirsStart' = {}
  /\ UNCHANGED <<cfg, fs, dirs, completed>>

Next ==
  \/ ParseArgsAndConfig
  \/ BatchSetup
  \/ ListDir
  \/ SkipNonFile
  \/ SkipUnsupported
  \/ SkipExisting
  \/ ProcessMedia
  \/ ProcessVideoOnly
  \/ BatchReturn
  \/ WriteResult
  \/ Exit
  \/ Rerun

Spec == Init /\ [][Next]_vars

\* ================================================================ properties
Supported(f) == IsMedium(f)

\* A rectangle of non-positive width or height, in the form of its kind.
Degenerate(kind, rect) ==
  IF kind = "video"
  THEN rect[3] <= 0 \/ rect[4] <= 0
  ELSE rect[3] - rect[1] <= 0 \/ rect[4] - rect[2] <= 0

\* The rectangle is the native full frame, as the claim states it per kind.
IsFullFrame(kind, rect) ==
  IF kind = "video"
  THEN rect[3] = Native[1] /\ rect[4] = Native[2]
  ELSE rect = <<0, 0, Native[1], Native[2]>>

\* The batch of this run has returned to main.
Returned == run \in completed

\* The media of this run's batch, and those that ended Failed.
Media == {d \in done : Supported(d.path)}
Failures == {d \in Media : d.outcome = "Failed"}

\* C1. Failure isolation: in a batch of supported files whose targets do not
\* exist, when exactly one file raises and nothing else goes wrong, every
\* other file ends Copied or Cropped with its target written, that file ends
\* Failed, and batch_process_media returns the output root.
C1_FailureIsolation ==
  ( /\ Entry = "media"
    /\ pc = "finally"
    /\ Media # {}
    /\ \A d \in Media : d.outcome # "SkippedExisting"
    /\ Cardinality(Failures) = 1
    /\ \A d \in Media : d.fault => d.outcome = "Failed" )
  => /\ \A d \in Media \ Failures :
          d.outcome \in {"Copied", "Cropped"} /\ Target(d.path) \in fs
     /\ Returned
     /\ result.video_path = OutputPath

\* C2. Overall success reflects only fatal errors: without a fatal setup
\* error the result that main writes has success = true, video_path = the
\* output root and error = null, whatever the number of failed files.
C2_SuccessOnlyFatal ==
  ( /\ Entry = "media"
    /\ docWritten
    /\ ParseError = "None"
    /\ MediaPath # NoPath
    /\ MediaPath \in dirs
    /\ result.error # "OSError" )
  => result = [success |-> TRUE, video_path |-> OutputPath, error |-> "None"]

\* C2 witness: the document of a run in which every file failed.
C2_Witness ==
  /\ Entry = "media"
  /\ pc = "exited"
  /\ docWritten
  /\ result.success
  /\ done # {}
  /\ \A d \in done : d.outcome = "Failed"

\* C3 as stated. Idempotence: after one complete run, a second run does no
\* detection, copy or crop, writes nothing, and every supported file ends
\* SkippedExisting.
C3_SecondRunAllSkipped ==
  (Entry = "media" /\ run = 2 /\ 1 \in completed)
  => /\ fs = fsStart
     /\ last.ops = <<>>
     /\ \A d \in done : Supported(d.path) => d.outcome = "SkippedExisting"

\* C3 as amended. After one complete run, a second run does no detection, no
\* copy and no crop on a supported file whose target exists when the second
\* run starts, writes no target for it, and the file ends SkippedExisting; a
\* file without target is not skipped but processed again.
C3_SkippedWhereTargetExists ==
  (Entry = "media" /\ run >= 2 /\ 1 \in completed)
  => /\ ( last.kind \in {"video", "image"} /\ Target(last.path) \in fsStart )
        => last.outcome = "SkippedExisting" /\ last.ops = <<>> /\ ~last.wrote
     /\ \A d \in done :
          Supported(d.path)
          => (d.outcome = "SkippedExisting" <=> Target(d.path) \in fsStart)

\* C3 witness: the second run skips a file that the first run completed.
C3_Witness ==
  /\ Entry = "media"
  /\ run = 2
  /\ 1 \in completed
  /\ last.outcome = "SkippedExisting"
  /\ last.target \in fsStart

\* What the spec lists as fatal setup errors.
FatalSetup ==
  \/ cfg.argc # 3
  \/ ~cfg.cfgExists
  \/ ~cfg.doc.parses
  \/ ~cfg.doc.hasParams
  \/ MediaPath = NoPath
  \/ MediaPath \notin dirs

\* C4. Fatal setup errors abort before any file is touched: the run ends
\* with success = false, a non-null error and exit status 1, and no file is
\* detected, copied or cropped and nothing is written.
C4_FatalSetupAborts ==
  (Entry = "media" /\ FatalSetup)
  => /\ done = {}
     /\ fs = fsStart
     /\ pc = "exited"
        => ~result.success /\ result.error # "None" /\ exitCode = 1

\* C5. Degenerate-rectangle rejection: a file whose detector returns a
\* rectangle of non-positive width or height ends Failed; it is not copied,
\* the crop tool is not run on it and no target is written.
C5_DegenerateRejected ==
  ( Entry = "media" /\ last.det # NoRect /\ Degenerate(last.kind, last.det) )
  => /\ last.outcome = "Failed"
     /\ ~Called(last, "copy")
     /\ ~Called(last, "ffmpeg")
     /\ ~last.wrote

ConventionTarget(src) ==
  [dir |-> OutputPath \o SubSeq(src.dir, Len(MediaPath) + 1, Len(src.dir)),
   name |-> SubSeq(src.name, 1, Len(src.name) - 1) \o <<"_noblack">>
            \o <<src.name[Len(src.name)]>>]

\* C7. Naming convention: every file a run writes is at
\* <outputRoot>/<relativeDir>/<stem>_noblack<ext> for an enumerated source
\* <inputRoot>/<relativeDir>/<stem><ext>, the suffix kept as it is, and
\* distinct sources have distinct targets.
C7_NamingConvention ==
  /\ \A t \in fs \ fsStart :
       \E d \in done :
         /\ IsPrefix(MediaPath, d.path.dir)
         /\ d.path \in fs
         /\ t = ConventionTarget(d.path)
  /\ last.wrote => last.target = ConventionTarget(last.path)
  /\ \A d1, d2 \in done : d1.path # d2.path => Target(d1.path) # Target(d2.path)

\* C7 witness: a run has written the target of a source with an upper-case
\* suffix in a subdirectory.
C7_Witness ==
  /\ pc = "exited"
  /\ \E t \in fs \ fsStart :
       Len(t.dir) > Len(OutputPath) /\ Suffix(t.name) = ".MP4"

\* C8. Exit status of main: 0 iff success = true and the result document was
\* written; 1 when success = false, and 1 when the write failed.
C8_ExitStatus ==
  /\ pc = "exited"
     => /\ exitCode \in {0, 1}
        /\ exitCode = 0 <=> (result.success /\ docWritten)
        /\ ~result.success => exitCode = 1
        /\ ~docWritten => exitCode = 1
  /\ pc # "exited" => exitCode = -1

\* C8 witness: the batch succeeded, the write failed, the status is 1.
C8_Witness ==
  /\ pc = "exited"
  /\ result.success
  /\ ~docWritten
  /\ docWrites = 1
  /\ exitCode = 1

\* C9. The result document is written on every run, once, at the end: a
\* write is attempted exactly once by the time the process exits, also after
\* a fatal error, and never before the batch has ended.
C9_ResultAlwaysWritten ==
  Entry = "media"
  => /\ pc = "exited" => docWrites = 1
     /\ docWrites > 0 => pc \in {"exit", "exited"}

\* C10. An invalid video_algorithm fails fast: the run fails and no file of
\* any kind is detected, copied or cropped.
C10_InvalidAlgorithmFailsFast ==
  (Entry = "media" /\ VideoAlgorithm \notin {"dynamic", "static"})
  => /\ ~Called(last, "detect")
     /\ ~Called(last, "copy")
     /\ ~Called(last, "crop_video")
     /\ ~Called(last, "crop_image")
     /\ fs = fsStart
     /\ pc = "exited" => ~result.success

\* The kind the classification rule gives an enumerated path: by its
\* lower-cased extension when it is a regular file, unsupported otherwise.
RuleKind(f) ==
  LET e == Lower(f.name[Len(f.name)])
  IN  IF f \notin fs THEN "unsupported"
      ELSE IF e \in {".mp4", ".avi", ".flv", ".mov", ".mkv"} THEN "video"
      ELSE IF e \in {".png", ".jpg", ".jpeg", ".bmp", ".gif", ".tiff"} THEN "image"
      ELSE "unsupported"

\* C11. Classification: every enumerated path has exactly one kind, given
\* by its lower-cased extension alone; an unsupported one (also what is no
\* regular file) ends SkippedUnsupported without selector call, detection or
\* write, and the batch goes on; a video or an image is never passed over
\* as unsupported.
C11_Classification ==
  (Entry = "media" /\ last.path # NoFile)
  => /\ RuleKind(last.path) \in {"video", "image", "unsupported"}
     /\ last.path \in fs => last.kind = RuleKind(last.path)
     /\ RuleKind(last.path) = "unsupported"
        => /\ last.outcome = "SkippedUnsupported"
           /\ last.ops = <<>>
           /\ last.remover = "none"
           /\ ~last.wrote /\ ~last.mkdir
           /\ pc = "loop"
     /\ RuleKind(last.path) # "unsupported"
        => last.outcome # "SkippedUnsupported"
     /\ \A d \in done :
          d.outcome = "SkippedUnsupported" <=> RuleKind(d.path) = "unsupported"

\* C11 witness: a text file was passed over and the batch went on to write
\* the target of a video with an upper-case suffix.
C11_Witness ==
  /\ Entry = "media"
  /\ pc = "loop"
  /\ \E d \in done :
       d.path.name = <<"n", ".txt">> /\ d.outcome = "SkippedUnsupported"
  /\ last.path.name = <<"w", ".MP4">>
  /\ last.kind = "video"
  /\ last.outcome \in {"Copied", "Cropped"}
  /\ last.wrote

\* C12. Strategy selection: (video, dynamic) gets the dynamic video
\* detector, (video, static) the static video detector, an image the image
\* detector whatever the algorithm; another kind, or another algorithm for a
\* video, raises and the file fails undetected; max_frames is passed to the
\* detector for the static video strategy alone.
C12_StrategySelection ==
  /\ \A k \in {"unsupported", "none", "audio"} :
       \A a \in {"dynamic", "static", "bogus"} : GetRemover(k, a) = "ValueError"
  /\ (Entry = "media" /\ Called(last, "select"))
     => /\ (last.kind = "video" /\ VideoAlgorithm = "dynamic")
           => last.remover = "VideoRemover"
        /\ (last.kind = "video" /\ VideoAlgorithm = "static")
           => last.remover = "IMGBlackRemover"
        /\ last.kind = "image" => last.remover = "BlackRemover"
        /\ (last.kind = "video" /\ VideoAlgorithm \notin {"dynamic", "static"})
           => /\ last.remover = "ValueError"
              /\ last.outcome = "Failed"
              /\ ~Called(last, "detect")
        /\ last.remover # "ValueError" => Calls(last, "detect") = 1
        /\ last.maxFrames
           <=> (last.kind = "video" /\ VideoAlgorithm = "static")

\* C12 witness: with an unrecognized algorithm an image went to the image
\* detector.
C12_Witness ==
  /\ Entry = "media"
  /\ VideoAlgorithm = "bogus"
  /\ last.kind = "image"
  /\ last.remover = "BlackRemover"
  /\ Called(last, "detect")
  /\ ~last.maxFrames

Outcomes == {"Copied", "Cropped", "SkippedExisting", "SkippedUnsupported", "Failed"}

\* C13. A failing crop tool is a failure of the file, and each file has one
\* outcome: every file the loop has handled has exactly one outcome of
\* Copied, Cropped, SkippedExisting, SkippedUnsupported, Failed; a video whose
\* transcoding process exits non-zero or is missing ends Failed, never
\* Cropped, and the batch goes on.
C13_ToolFailureIsFailure ==
  Entry = "media"
  => /\ \A d \in done : d.outcome \in Outcomes
     /\ \A d1, d2 \in done : d1.path = d2.path => d1.outcome = d2.outcome
     /\ (last.kind = "video" /\ last.toolFailed)
        => last.outcome = "Failed" /\ pc = "loop"

\* C14. No-bars check by dimensions in the video-only script: a video whose
\* detected rectangle has the native width and height is copied to its
\* target and never handed to crop_video, and one whose rectangle is
\* smaller is not copied, whatever the size of the file in bytes.
C14_DimensionNoBars ==
  ( /\ Entry = "video"
    /\ last.kind = "video"
    /\ last.det # NoRect
    /\ ~Degenerate("video", last.det) )
  => /\ IsFullFrame("video", last.det)
        => Called(last, "copy") /\ ~Called(last, "crop_video")
     /\ ~IsFullFrame("video", last.det) => ~Called(last, "copy")

\* C15. Failure isolation in the video-only script: when the detector or
\* the copy raises for one video, the exception stays inside that file's
\* iteration: the loop goes on, every other video under the input root is
\* handled, and batch_crop_videos returns the output root.
C15_VideoOnlyIsolation ==
  (Entry = "video" /\ \E d \in done : d.fault /\ d.outcome = "Failed")
  => /\ ~last.raised
     /\ pc = "loop" \/ Returned
     /\ Returned
        => /\ result.video_path = OutputPath
           /\ \A f \in fsStart :
                ( /\ Classify(Suffix(f.name)) = "video"
                  /\ IsPrefix(MediaPath, f.dir)
                  /\ PathLen(f) <= MaxPathLen )
                => \E d \in done : d.path = f

\* C16. Soundness of the resumption marker: a target that a run has made
\* exists only for a source that ended Copied or Cropped; a source that
\* ended Failed has no target, a source that ended Copied or Cropped has
\* one; and in the next run a source is SkippedExisting exactly when its
\* target was there at the start, so that a failed file is processed again
\* and a completed one is skipped.
C16_ResumptionMarker ==
  Entry = "media"
  => /\ \A d \in Media : d.outcome = "Failed" => Target(d.path) \notin fs
     /\ \A d \in Media :
          (Target(d.path) \in fs /\ Target(d.path) \notin fsStart)
          => d.outcome \in {"Copied", "Cropped"}
     /\ \A d \in Media :
          d.outcome \in {"Copied", "Cropped"} => Target(d.path) \in fs
     /\ run >= 2
        => \A d \in Media :
             d.outcome = "SkippedExisting" <=> Target(d.path) \in fsStart

\* C17. No overwrite, sources untouched: wherever the output root lies, a
\* step of the batch that writes (copy or crop) writes one path, the target
\* of the file it handles, and that path did not exist before the step nor
\* when the run started; every file that existed is still there.
C17_NoOverwrite ==
  [][ (Entry = "media" /\ last' # last /\ last'.wrote)
      => /\ last'.target = Target(last'.path)
         /\ last'.target \notin fs
         /\ last'.target \notin fsStart
         /\ last'.path \in fs
         /\ fs' = fs \cup {last'.target} ]_vars

\* C17 witness: with the output root equal to the input root, a target was
\* written next to its source.
C17_Witness ==
  /\ Entry = "media"
  /\ OutputPath = MediaPath
  /\ last.wrote
  /\ last.target.dir = last.path.dir
  /\ last.path \in fsStart
  /\ {last.path, last.target} \subseteq fs

\* How often a file name carries the marker of a target. No file of the
\* input trees carries it, so a file that does was written by the batch.
Markers(f) == Cardinality({i \in DOMAIN f.name : f.name[i] = "_noblack"})

\* C18. Outputs are not taken as inputs: also with the output root inside or
\* equal to the input root, in the same run and in a later one, no file that
\* the batch wrote goes through detection, copy or crop, no file
\* <stem>_noblack_noblack<ext> is made, and there is at most one target per
\* original source.
C18_OutputsNotSources ==
  /\ Markers(last.path) > 0 => last.ops = <<>> /\ ~last.wrote
  /\ \A d \in done :
       Markers(d.path) > 0 => d.outcome \notin {"Copied", "Cropped", "Failed"}
  /\ \A f \in fs : Markers(f) <= 1
  /\ Cardinality({f \in fs : Markers(f) > 0})
        <= Cardinality({f \in fs : Markers(f) = 0 /\ Classify(Suffix(f.name)) # "unsupported"})

====
